---- MODULE Spec2Model ----
(***************************************************************************)
(* Model of the automation front end: the AutomationDashboard workflow     *)
(* controller (src/src/components/AutomationDashboard.tsx), the            *)
(* UploadManager upload routine (src/src/components/UploadManager.tsx)     *)
(* the shared log kept by the Index page (src/unnamed/part_002), the       *)
(* VideoCreator (src/src/components/LogViewer.tsx), the keyword list of    *)
(* the ScriptGenerator (src/unnamed/part_000) and the ConfigManager        *)
(* (src/unnamed/part_001), with the retry policy and the element locator   *)
(* of the automation engine that the configuration feeds.                  *)
(*                                                                         *)
(* Every event handler is one action.  An async handler is split at its    *)
(* awaits: the code from one await to the next runs as one JavaScript      *)
(* task and is one action.  A handler that is in flight is a record in     *)
(* `runs` (handleStart) or `uploads` (handleUpload) holding the values its *)
(* closure captured when the button was clicked and its loop index.        *)
(*                                                                         *)
(* The log and the toasts are write-only sinks: `logged` and `toasted`     *)
(* hold what the handler step just taken handed to onLog and to toast, so  *)
(* the Index log is the concatenation of `logged` along a behaviour.       *)
(***************************************************************************)
EXTENDS Integers, Sequences, FiniteSets, TLC

\* ---------------------------------------------------------------- bounds
MaxRuns == 2        \* Start clicks explored
MaxUploads == 2     \* Upload clicks explored
MaxFairRuns == 1    \* Start clicks explored where liveness is checked
MaxCreations == 3   \* Create Video clicks explored
MaxKeywordAdds == 4 \* Add keyword clicks explored
MaxRetryInput == 3  \* largest whole number typed into Retry Attempts
MaxText == 3        \* longest text typed into a selector textarea, in tokens
MaxFormUploads == 1 \* Upload clicks explored with the whole form filled in

VARIABLES
  \* AutomationDashboard state (useState hooks)
  isRunning, progress, currentStep, videosCreated, videosUploaded,
  \* Index state
  activeWorkflow,
  \* messages handed to onLog (Index.addLog) and to toast by the last step
  logged, toasted,
  \* handleStart invocations: captured closure values and loop position;
  \* an invocation that has returned leaves only [pc |-> "done"]
  runs,
  \* history: the invocation the last step completed (<<>> if it completed
  \* none), as it was when it returned
  completed,
  \* UploadManager state (useState hooks)
  videoFile, uploadDetails, scheduleSettings, isUploading, uploadProgress,
  uploadedVideos,
  \* handleUpload invocations, kept like `runs`
  uploads,
  \* the wall clock read by Date.now() and new Date()
  now,
  \* VideoCreator state (useState hooks, one record) and its handleCreateVideo
  \* invocations, kept like `runs`
  creator, creations,
  \* ScriptGenerator state (keywords, newKeyword) and, as history, the calls
  \* of handleAddKeyword: what was typed and whether a keyword was added
  script, keywordAdds,
  \* ConfigManager state: the config fields and selector lists modelled
  config, selectors,
  \* the retry policy and the element locator of the automation core
  retry, locate

dashVars == <<isRunning, progress, currentStep, videosCreated, videosUploaded,
              activeWorkflow, runs, completed>>
uploadState == <<videoFile, uploadDetails, scheduleSettings, isUploading,
                 uploadProgress, uploadedVideos, uploads>>
uploadVars == <<uploadState, now>>
sinkVars == <<logged, toasted>>
creatorVars == <<creator, creations>>
scriptVars == <<script, keywordAdds>>
configVars == <<config, selectors>>
coreVars == <<retry, locate>>
vars == <<dashVars, uploadVars, creatorVars, scriptVars, configVars, coreVars,
          sinkVars>>

\* what the handlers of one component leave alone
offDash == <<uploadVars, creatorVars, scriptVars, configVars, coreVars>>
offUpload == <<dashVars, creatorVars, scriptVars, configVars, coreVars>>
offCreator == <<dashVars, uploadState, scriptVars, configVars, coreVars>>
offScript == <<dashVars, uploadVars, creatorVars, configVars, coreVars>>
offConfig == <<dashVars, uploadVars, creatorVars, scriptVars>>

\* ------------------------------------------------------------ pure parts
\* workflowModes: the values offered by the Workflow Mode select
workflowModes ==
  <<"full_auto", "script_only", "video_only", "upload_only",
    "script_and_video", "video_and_upload">>

ModeValues == {workflowModes[k] : k \in 1..Len(workflowModes)}

\* getWorkflowSteps with the label of one case misspelt, so that video_only
\* falls through to the default
getWorkflowStepsTypo(workflow) ==
  CASE workflow = "full_auto" ->
         <<"Generate Script", "Create Video", "Upload to YouTube">>
    [] workflow = "script_only" -> <<"Generate Script">>
    [] workflow = "upload_only" -> <<"Upload to YouTube">>
    [] workflow = "script_and_video" -> <<"Generate Script", "Create Video">>
    [] workflow = "video_and_upload" -> <<"Create Video", "Upload to YouTube">>
    [] OTHER -> <<>>

getWorkflowSteps(workflow) ==
  CASE workflow = "full_auto" ->
         <<"Generate Script", "Create Video", "Upload to YouTube">>
    [] workflow = "script_only" -> <<"Generate Script">>
    [] workflow = "video_only" -> <<"Create Video">>
    [] workflow = "upload_only" -> <<"Upload to YouTube">>
    [] workflow = "script_and_video" -> <<"Generate Script", "Create Video">>
    [] workflow = "video_and_upload" -> <<"Create Video", "Upload to YouTube">>
    [] OTHER -> <<>>

\* String.prototype.includes on the step names: a step name is modelled by
\* the words it is made of, and includes(w) holds when w is one of them.
StepWords(step) ==
  CASE step = "Generate Script" -> {"Generate", "Script"}
    [] step = "Create Video" -> {"Create", "Video"}
    [] step = "Upload to YouTube" -> {"Upload", "to", "YouTube"}
    [] OTHER -> {}

includes(step, word) == word \in StepWords(step)

\* Numbers shown by the progress bar are kept as exact fractions in lowest
\* terms (the code computes them in floating point).
RECURSIVE GCD(_, _)
GCD(a, b) == IF b = 0 THEN a ELSE GCD(b, a % b)

Frac(n, d) == [num |-> n \div GCD(n, d), den |-> d \div GCD(n, d)]

Zero == Frac(0, 1)

\* stepProgress computed from i instead of i + 1
stepProgressLate(i, len) == Frac(i * 100, len)

\* const stepProgress = ((i + 1) / steps.length) * 100
stepProgress(i, len) == Frac((i + 1) * 100, len)

\* a loop that stops one iteration early
loopCondShort(i, steps) == i < Len(steps) - 1

\* loop condition of `for (let i = 0; i < steps.length; i++)`
loopCond(i, steps) == i < Len(steps)

\* steps[i], with the code's indices from 0
stepAt(steps, i) == steps[i + 1]

\* the branch taken by the if / else-if chain on steps[i].includes(...)
stageKind(step) ==
  IF includes(step, "Script") THEN "Script"
  ELSE IF includes(step, "Video") THEN "Video"
  ELSE IF includes(step, "Upload") THEN "Upload"
  ELSE "none"

\* addLog: setLogs(prev => [...prev, message]); the wall-clock prefix of the
\* entry is not modelled
Msg(text, arg) == [text |-> text, arg |-> arg]
addLog(prev, text, arg) == Append(prev, Msg(text, arg))

\* a stage that reports nothing when it is done
stageLogNone(kind) == <<>>

\* the onLog call of the branch taken for a stage of this kind
stageLog(kind) ==
  IF kind = "Script"
    THEN addLog(<<>>, "Script generation completed", "")
  ELSE IF kind = "Video"
    THEN addLog(<<>>, "Video creation completed", "")
  ELSE IF kind = "Upload"
    THEN addLog(<<>>, "Video upload completed", "")
  ELSE <<>>

\* history of one handleStart invocation: a stage is started when the loop
\* sets it as the current step, and done when its timer has fired and its
\* progress and counter updates are made
Ev(kind, step) == [ev |-> kind, step |-> step]

\* an iteration that enters the next stage before it records the current one
iterationEventsEager(steps, i) ==
  (IF loopCond(i + 1, steps) THEN <<Ev("start", stepAt(steps, i + 1))>>
                             ELSE <<>>) \o
  <<Ev("done", stepAt(steps, i))>>

\* what the task run by the timer of iteration i adds to that history: the
\* rest of iteration i, then the head of iteration i + 1 if the loop goes on
iterationEvents(steps, i) ==
  <<Ev("done", stepAt(steps, i))>> \o
  (IF loopCond(i + 1, steps) THEN <<Ev("start", stepAt(steps, i + 1))>>
                             ELSE <<>>)

\* --------------------------------------------------- upload: pure parts
\* inputs the user can give
VideoFiles == {"a.mp4", "b.mp4"}
Titles == {"", " ", "Clip A", "Clip B"}
Null == "null"

\* trim left out: the string is used as typed
trimNone(s) == s

\* String.prototype.trim on the titles above and the keywords below
trim(s) ==
  IF s = " " THEN ""
  ELSE IF s = " ai " THEN "ai"
  ELSE s

timeSlots == <<"06:00", "12:00", "18:00", "00:00">>

uploadSteps ==
  <<"Preparing video file", "Uploading to YouTube", "Processing video",
    "Setting metadata", "Configuring privacy settings",
    "Generating auto-captions", "Adding tags", "Scheduling publication",
    "Upload complete">>

\* the form as useState initialises it and as handleUpload resets it
emptyDetails ==
  [title |-> "", description |-> "", tags |-> "", visibility |-> "public",
   category |-> "Entertainment", thumbnail |-> Null]

\* the two records uploadedVideos starts with; scheduledFor is <<>> when the
\* record has none
initialVideos ==
  <<[id |-> [lit |-> "vid_001", stamp |-> 0], title |-> "AI Productivity Tips",
     uploadedAt |-> [lit |-> "2024-01-15 14:30", stamp |-> 0],
     status |-> "uploaded", scheduledFor |-> <<>>, file |-> Null],
    [id |-> [lit |-> "vid_002", stamp |-> 0], title |-> "Future of Technology",
     uploadedAt |-> [lit |-> "2024-01-14 09:15", stamp |-> 0],
     status |-> "scheduled", scheduledFor |-> <<"2024-01-16", "12:00">>,
     file |-> Null]>>

\* a record that takes its status from the switch as it is when the upload
\* finishes
newVideoLive(up, clock) ==
  [id |-> [lit |-> "vid_", stamp |-> clock],
   title |-> up.title,
   uploadedAt |-> [lit |-> "", stamp |-> clock],
   status |-> IF scheduleSettings.scheduleVideo THEN "scheduled"
                                                ELSE "uploaded",
   scheduledFor |-> IF up.scheduleVideo THEN <<"today", up.timeSlot>>
                                        ELSE <<>>,
   file |-> up.file]

\* const newVideo = {...}: built from the values the closure captured at the
\* click and from the clock.  `file` is history only (the code's record does
\* not name the file it was made from).
newVideo(up, clock) ==
  [id |-> [lit |-> "vid_", stamp |-> clock],
   title |-> up.title,
   uploadedAt |-> [lit |-> "", stamp |-> clock],
   status |-> IF up.scheduleVideo THEN "scheduled" ELSE "uploaded",
   scheduledFor |-> IF up.scheduleVideo THEN <<"today", up.timeSlot>>
                                        ELSE <<>>,
   file |-> up.file]

\* a history that keeps only the newest record
prependOnly(video, prev) == <<video>>

\* setUploadedVideos(prev => [newVideo, ...prev])
prepend(video, prev) == <<video>> \o prev

\* ------------------------------------- other components: initial values
\* VideoCreator: useState initial values; createdVideo is noVideo while null
noVideo == [lit |-> "null", stamp |-> 0]

creatorInit ==
  [scriptFile |-> Null, isCreating |-> FALSE, progress |-> Zero,
   currentStep |-> "", createdVideo |-> noVideo]

\* ScriptGenerator: useState initial values of keywords and newKeyword
scriptInit == [keywords |-> <<>>, newKeyword |-> ""]

\* a JavaScript number: NaN, or a whole number n
NaN == <<>>
num(n) == <<n>>

\* ConfigManager: useState initial values of the fields modelled
configInit ==
  [apiKey |-> "", retryAttempts |-> num(3), primaryBrowser |-> "edge",
   fallbackBrowser |-> "chrome"]

\* a selector list is a list of lines, a line a list of tokens: a selector
\* word or a blank
selectorsInit ==
  [capcut |->
     [loginButton |-> << <<"#login-btn">>, <<".login-button">>,
                         <<"[data-testid=\"login\"]">> >>,
      generateButton |-> << <<"#generate">>, <<".generate-btn">>,
                            <<".ai-generate">> >>]]

\* RetryPolicy.Run and ElementLocator.Resolve before any call
retryInit ==
  [status |-> "idle", maxAttempts |-> 0, attempts |-> 0, outcomes |-> <<>>]

locateInit ==
  [status |-> "idle", candidates |-> <<>>, checks |-> <<>>, found |-> 0]

\* ------------------------------------------------------------------ Init
Init ==
  /\ isRunning = FALSE
  /\ progress = Zero
  /\ currentStep = ""
  /\ videosCreated = 0
  /\ videosUploaded = 0
  /\ activeWorkflow = "full_auto"
  /\ logged = <<>>
  /\ toasted = <<>>
  /\ runs = <<>>
  /\ completed = <<>>
  /\ videoFile = Null
  /\ uploadDetails = emptyDetails
  /\ scheduleSettings = [scheduleVideo |-> TRUE, timeSlot |-> "06:00",
                         timezone |-> "Asia/Cairo", autoTags |-> TRUE,
                         autoCaptions |-> TRUE]
  /\ isUploading = FALSE
  /\ uploadProgress = Zero
  /\ uploadedVideos = initialVideos
  /\ uploads = <<>>
  /\ now = 1
  /\ creator = creatorInit
  /\ creations = <<>>
  /\ script = scriptInit
  /\ keywordAdds = <<>>
  /\ config = configInit
  /\ selectors = selectorsInit
  /\ retry = retryInit
  /\ locate = locateInit

\* ----------------------------------------------------- dashboard actions
\* Workflow Mode select: onValueChange={setActiveWorkflow}
setActiveWorkflow(m) ==
  /\ m # activeWorkflow
  /\ activeWorkflow' = m
  /\ logged' = <<>>
  /\ toasted' = <<>>
  /\ completed' = <<>>
  /\ UNCHANGED <<isRunning, progress, currentStep, videosCreated,
                 videosUploaded, runs, offDash>>

\* toast.success(`${activeWorkflow} workflow completed successfully!`)
completedToast(workflow) ==
  Msg("success: workflow completed successfully!", workflow)

\* Start button (disabled while isRunning): handleStart up to its first await
handleStart ==
  /\ ~isRunning
  /\ Len(runs) < MaxRuns
  /\ LET steps == getWorkflowSteps(activeWorkflow)
         log1 == addLog(<<>>, "Starting workflow", activeWorkflow)
         run == [workflow |-> activeWorkflow, steps |-> steps, i |-> 0,
                 stopped |-> FALSE, paused |-> FALSE, pc |-> "await",
                 trace |-> <<>>]
     IN  /\ progress' = Zero
         /\ IF loopCond(0, steps)
              THEN /\ isRunning' = TRUE
                   /\ currentStep' = stepAt(steps, 0)
                   /\ logged' = addLog(log1, "Executing step",
                                       stepAt(steps, 0))
                   /\ toasted' = <<>>
                   /\ runs' = Append(runs,
                        [run EXCEPT
                           !.trace = <<Ev("start", stepAt(steps, 0))>>])
                   /\ completed' = <<>>
              ELSE /\ isRunning' = FALSE
                   /\ currentStep' = "Completed"
                   /\ logged' = log1
                   /\ toasted' = <<completedToast(activeWorkflow)>>
                   /\ runs' = Append(runs, [pc |-> "done"])
                   /\ completed' = <<[run EXCEPT !.pc = "done"]>>
  /\ UNCHANGED <<videosCreated, videosUploaded, activeWorkflow, offDash>>

\* a counter that counts every stage
countAny(kind, counted, n) == n + 1

\* setVideosCreated(prev => prev + 1) / setVideosUploaded(prev => prev + 1)
\* in the branch of the stage kind counted, nothing in the other branches
count(kind, counted, n) == IF kind = counted THEN n + 1 ELSE n

\* Success Rate shown: videosCreated > 0 ?
\*   Math.round((videosUploaded / videosCreated) * 100) : 0
successRate ==
  IF videosCreated > 0
    THEN (200 * videosUploaded + videosCreated) \div (2 * videosCreated)
    ELSE 0

\* a loop that reads the mode selected now, not the one it was started with
loopStepsLive(run) == getWorkflowSteps(activeWorkflow)

\* `steps` in the loop of handleStart: the const computed before the loop
loopSteps(run) == run.steps

\* The 2000 ms timer of run r fires: the rest of iteration i, then either the
\* head of iteration i+1 (up to its await) or the code after the loop.
stepDone(r) ==
  /\ r \in 1..Len(runs)
  /\ runs[r].pc = "await"
  /\ LET run == runs[r]
         steps == loopSteps(run)
         i == run.i
         kind == stageKind(stepAt(steps, i))
         log1 == stageLog(kind)
         run1 == [run EXCEPT !.i = i + 1,
                             !.trace = @ \o iterationEvents(steps, i)]
     IN  /\ progress' = stepProgress(i, Len(steps))
         /\ videosCreated' = count(kind, "Video", videosCreated)
         /\ videosUploaded' = count(kind, "Upload", videosUploaded)
         /\ IF loopCond(i + 1, steps)
              THEN /\ currentStep' = stepAt(steps, i + 1)
                   /\ logged' = addLog(log1, "Executing step",
                                       stepAt(steps, i + 1))
                   /\ isRunning' = isRunning
                   /\ toasted' = <<>>
                   /\ runs' = [runs EXCEPT ![r] = run1]
                   /\ completed' = <<>>
              ELSE /\ isRunning' = FALSE
                   /\ currentStep' = "Completed"
                   /\ logged' = log1
                   /\ toasted' = <<completedToast(run.workflow)>>
                   /\ runs' = [runs EXCEPT ![r] = [pc |-> "done"]]
                   /\ completed' = <<[run1 EXCEPT !.pc = "done"]>>
  /\ UNCHANGED <<activeWorkflow, offDash>>

\* handleStart invocations whose loop has been entered and has not finished
InFlight == {r \in 1..Len(runs) : runs[r].pc = "await"}

\* Pause button (disabled unless isRunning).  The `paused` mark on the runs
\* in flight is history only: the code keeps no such flag.
handlePause ==
  /\ isRunning
  /\ isRunning' = FALSE
  /\ logged' = addLog(<<>>, "Workflow paused", "")
  /\ toasted' = <<Msg("info: Workflow paused", "")>>
  /\ runs' = [r \in 1..Len(runs) |->
                IF r \in InFlight THEN [runs[r] EXCEPT !.paused = TRUE]
                                  ELSE runs[r]]
  /\ completed' = <<>>
  /\ UNCHANGED <<progress, currentStep, videosCreated, videosUploaded,
                 activeWorkflow, offDash>>

\* Stop button (disabled unless isRunning).  The `stopped` mark is history
\* only, like `paused`.
handleStop ==
  /\ isRunning
  /\ isRunning' = FALSE
  /\ progress' = Zero
  /\ currentStep' = ""
  /\ logged' = addLog(<<>>, "Workflow stopped", "")
  /\ toasted' = <<Msg("error: Workflow stopped", "")>>
  /\ runs' = [r \in 1..Len(runs) |->
                IF r \in InFlight THEN [runs[r] EXCEPT !.stopped = TRUE]
                                  ELSE runs[r]]
  /\ completed' = <<>>
  /\ UNCHANGED <<videosCreated, videosUploaded, activeWorkflow, offDash>>

\* Reset button (always enabled)
handleReset ==
  /\ progress' = Zero
  /\ currentStep' = ""
  /\ videosCreated' = 0
  /\ videosUploaded' = 0
  /\ logged' = addLog(<<>>, "Dashboard reset", "")
  /\ toasted' = <<>>
  /\ completed' = <<>>
  /\ UNCHANGED <<isRunning, activeWorkflow, runs, offDash>>

Next ==
  \/ \E m \in ModeValues : setActiveWorkflow(m)
  \/ handleStart
  \/ \E r \in 1..MaxRuns : stepDone(r)
  \/ handlePause
  \/ handleStop
  \/ handleReset

Spec == Init /\ [][Next]_vars

\* The dashboard with every timer that has been set firing eventually.
FairNext ==
  \/ \E m \in ModeValues : setActiveWorkflow(m)
  \/ Len(runs) < MaxFairRuns /\ handleStart
  \/ \E r \in 1..MaxRuns : stepDone(r)
  \/ handlePause
  \/ handleStop
  \/ handleReset

FairSpec ==
  Init /\ [][FairNext]_vars /\ \A r \in 1..MaxRuns : WF_vars(stepDone(r))

\* -------------------------------------------------------- upload actions
\* video file input: handleVideoUpload (a file was chosen)
handleVideoUpload(f) ==
  /\ videoFile' = f
  /\ logged' = addLog(<<>>, "Video file selected", f)
  /\ toasted' = <<Msg("success: Video file selected successfully!", "")>>
  /\ UNCHANGED <<uploadDetails, scheduleSettings, isUploading, uploadProgress,
                 uploadedVideos, uploads, now, offUpload>>

\* title input: onChange sets uploadDetails.title
setTitle(t) ==
  /\ t # uploadDetails.title
  /\ uploadDetails' = [uploadDetails EXCEPT !.title = t]
  /\ logged' = <<>>
  /\ toasted' = <<>>
  /\ UNCHANGED <<videoFile, scheduleSettings, isUploading, uploadProgress,
                 uploadedVideos, uploads, now, offUpload>>

\* Schedule Video switch: onCheckedChange sets scheduleSettings.scheduleVideo
setScheduleVideo(checked) ==
  /\ checked # scheduleSettings.scheduleVideo
  /\ scheduleSettings' = [scheduleSettings EXCEPT !.scheduleVideo = checked]
  /\ logged' = <<>>
  /\ toasted' = <<>>
  /\ UNCHANGED <<videoFile, uploadDetails, isUploading, uploadProgress,
                 uploadedVideos, uploads, now, offUpload>>

\* handleUpload up to its first await
handleUploadCall ==
  /\ Len(uploads) < MaxUploads
  /\ IF videoFile = Null
       THEN /\ logged' = <<>>
            /\ toasted' = <<Msg("error: Please select a video file first", "")>>
            /\ UNCHANGED <<isUploading, uploadProgress, uploads>>
     ELSE IF trim(uploadDetails.title) = ""
       THEN /\ logged' = <<>>
            /\ toasted' = <<Msg("error: Please enter a video title", "")>>
            /\ UNCHANGED <<isUploading, uploadProgress, uploads>>
     ELSE /\ isUploading' = TRUE
          /\ uploadProgress' = Zero
          /\ logged' = addLog(addLog(<<>>, "Starting YouTube upload...", ""),
                              "Upload step", stepAt(uploadSteps, 0))
          /\ toasted' = <<>>
          /\ uploads' = Append(uploads,
               [title |-> uploadDetails.title,
                scheduleVideo |-> scheduleSettings.scheduleVideo,
                timeSlot |-> scheduleSettings.timeSlot,
                file |-> videoFile, i |-> 0, pc |-> "await"])
  /\ UNCHANGED <<videoFile, uploadDetails, scheduleSettings, uploadedVideos,
                 now, offUpload>>

\* The 1000 ms timer of upload u fires: the rest of iteration i, then the head
\* of iteration i+1 or the code after the loop.  The clock has moved on.
uploadStepDone(u) ==
  /\ u \in 1..Len(uploads)
  /\ uploads[u].pc = "await"
  /\ now' = now + 1
  /\ LET up == uploads[u]
         i == up.i
     IN  IF loopCond(i + 1, uploadSteps)
           THEN /\ uploadProgress' = stepProgress(i, Len(uploadSteps))
                /\ logged' = addLog(<<>>, "Upload step",
                                    stepAt(uploadSteps, i + 1))
                /\ toasted' = <<>>
                /\ uploads' = [uploads EXCEPT ![u].i = i + 1]
                /\ UNCHANGED <<videoFile, uploadDetails, isUploading,
                               uploadedVideos>>
           ELSE /\ uploadedVideos' = prepend(newVideo(up, now'), uploadedVideos)
                /\ isUploading' = FALSE
                /\ uploadProgress' = Zero
                /\ logged' = addLog(<<>>,
                                    "YouTube upload completed successfully", "")
                /\ toasted' = <<Msg("success: Video uploaded successfully!", "")>>
                /\ videoFile' = Null
                /\ uploadDetails' = emptyDetails
                /\ uploads' = [uploads EXCEPT ![u] = [pc |-> "done"]]
  /\ UNCHANGED <<scheduleSettings, offUpload>>

\* a button that is disabled only while no file is selected
uploadDisabledNoFile(file, uploading) == file = Null

\* disabled={!videoFile || isUploading}
uploadDisabled(file, uploading) == file = Null \/ uploading

\* Upload button: onClick={handleUpload}, disabled={!videoFile || isUploading}
handleUpload ==
  /\ ~uploadDisabled(videoFile, isUploading)
  /\ handleUploadCall

NextUpload ==
  \/ \E f \in VideoFiles : handleVideoUpload(f)
  \/ \E t \in Titles : setTitle(t)
  \/ \E c \in BOOLEAN : setScheduleVideo(c)
  \/ handleUpload
  \/ \E u \in 1..MaxUploads : uploadStepDone(u)

SpecUpload == Init /\ [][NextUpload]_vars

\* ------------------------------------------- upload: the rest of the form
Descriptions == {"", "About the clip"}
TagTexts == {"", "ai, clip"}
Thumbnails == {"thumb.png"}

\* description textarea: onChange sets uploadDetails.description
setDescription(d) ==
  /\ d # uploadDetails.description
  /\ uploadDetails' = [uploadDetails EXCEPT !.description = d]
  /\ logged' = <<>>
  /\ toasted' = <<>>
  /\ UNCHANGED <<videoFile, scheduleSettings, isUploading, uploadProgress,
                 uploadedVideos, uploads, now, offUpload>>

\* tags input: onChange sets uploadDetails.tags
setTags(t) ==
  /\ t # uploadDetails.tags
  /\ uploadDetails' = [uploadDetails EXCEPT !.tags = t]
  /\ logged' = <<>>
  /\ toasted' = <<>>
  /\ UNCHANGED <<videoFile, scheduleSettings, isUploading, uploadProgress,
                 uploadedVideos, uploads, now, offUpload>>

\* thumbnail file input: handleThumbnailUpload (a file was chosen)
handleThumbnailUpload(f) ==
  /\ uploadDetails' = [uploadDetails EXCEPT !.thumbnail = f]
  /\ logged' = addLog(<<>>, "Thumbnail selected", f)
  /\ toasted' = <<Msg("success: Thumbnail selected successfully!", "")>>
  /\ UNCHANGED <<videoFile, scheduleSettings, isUploading, uploadProgress,
                 uploadedVideos, uploads, now, offUpload>>

\* The UploadManager with the whole form
NextUploadForm ==
  \/ \E f \in VideoFiles : handleVideoUpload(f)
  \/ \E t \in Titles : setTitle(t)
  \/ \E d \in Descriptions : setDescription(d)
  \/ \E t \in TagTexts : setTags(t)
  \/ \E f \in Thumbnails : handleThumbnailUpload(f)
  \/ \E c \in BOOLEAN : setScheduleVideo(c)
  \/ Len(uploads) < MaxFormUploads /\ handleUpload
  \/ \E u \in 1..MaxUploads : uploadStepDone(u)

SpecUploadForm == Init /\ [][NextUploadForm]_vars

\* The UploadManager with handleUpload called whenever no upload is running,
\* whether or not the button would allow it (no file need be selected).
NextUploadCall ==
  \/ \E f \in VideoFiles : handleVideoUpload(f)
  \/ \E t \in Titles : setTitle(t)
  \/ \E c \in BOOLEAN : setScheduleVideo(c)
  \/ ~isUploading /\ handleUploadCall
  \/ \E u \in 1..MaxUploads : uploadStepDone(u)

SpecUploadCall == Init /\ [][NextUploadCall]_vars

\* ============================================================ VideoCreator
ScriptFiles == {"a.txt", "b.txt"}

creationSteps ==
  <<"Analyzing script content", "Generating voiceover",
    "Creating visual elements", "Applying anime style",
    "Synchronizing audio and video", "Rendering final video",
    "Optimizing for platform">>

\* `video_${Date.now()}`
videoId(clock) == [lit |-> "video_", stamp |-> clock]

\* a check that never rejects
noScriptNever(f) == FALSE

\* if (!scriptFile)
noScript(f) == f = Null

\* onChange of the script file input, with a file chosen
handleScriptUpload(f) ==
  /\ creator' = [creator EXCEPT !.scriptFile = f]
  /\ logged' = addLog(<<>>, "Script file uploaded", f)
  /\ toasted' = <<Msg("success: Script file uploaded successfully!", "")>>
  /\ UNCHANGED <<creations, now, offCreator>>

\* handleCreateVideo up to its first await; the log of a step carries the
\* step's name, its number being the step's position in creationSteps
handleCreateVideoCall ==
  /\ Len(creations) < MaxCreations
  /\ IF noScript(creator.scriptFile)
       THEN /\ toasted' = <<Msg("error: Please upload a script file first", "")>>
            /\ logged' = <<>>
            /\ UNCHANGED <<creator, creations>>
       ELSE /\ creator' = [creator EXCEPT !.isCreating = TRUE,
                                          !.progress = Zero,
                                          !.currentStep = stepAt(creationSteps, 0)]
            /\ logged' = addLog(addLog(<<>>,
                                  "Starting video creation process...", ""),
                                "Step", stepAt(creationSteps, 0))
            /\ toasted' = <<>>
            /\ creations' = Append(creations, [pc |-> "await", i |-> 0])
  /\ UNCHANGED <<now, offCreator>>

\* the timer of step i fires: from the await to the next await or the return
creationStepDone(c) ==
  /\ c \in 1..Len(creations)
  /\ creations[c].pc = "await"
  /\ now' = now + 1
  /\ LET i == creations[c].i
     IN  IF loopCond(i + 1, creationSteps)
           THEN /\ creator' =
                     [creator EXCEPT
                        !.progress = stepProgress(i, Len(creationSteps)),
                        !.currentStep = stepAt(creationSteps, i + 1)]
                /\ logged' = addLog(<<>>, "Step", stepAt(creationSteps, i + 1))
                /\ toasted' = <<>>
                /\ creations' = [creations EXCEPT ![c].i = i + 1]
           ELSE /\ creator' =
                     [creator EXCEPT
                        !.progress = stepProgress(i, Len(creationSteps)),
                        !.createdVideo = videoId(now'),
                        !.isCreating = FALSE,
                        !.currentStep = "Completed"]
                /\ logged' = addLog(<<>>,
                                "Video creation completed successfully", "")
                /\ toasted' = <<Msg("success: Video created successfully!", "")>>
                /\ creations' = [creations EXCEPT ![c] = [pc |-> "done"]]
  /\ UNCHANGED offCreator

\* Preview button, rendered once a video has been created
handlePreview ==
  /\ creator.createdVideo # noVideo
  /\ logged' = addLog(<<>>, "Opening video preview...", "")
  /\ toasted' = <<Msg("info: Video preview would open in CapCut", "")>>
  /\ UNCHANGED <<creator, creations, now, offCreator>>

\* Download button, rendered once a video has been created
handleDownload ==
  /\ creator.createdVideo # noVideo
  /\ logged' = addLog(<<>>, "Downloading video...", "")
  /\ toasted' = <<Msg("success: Video download started", "")>>
  /\ UNCHANGED <<creator, creations, now, offCreator>>

\* Create Video button: onClick={handleCreateVideo},
\* disabled={!scriptFile || isCreating}
handleCreateVideo ==
  /\ creator.scriptFile # Null
  /\ ~creator.isCreating
  /\ handleCreateVideoCall

NextVideo ==
  \/ \E f \in ScriptFiles : handleScriptUpload(f)
  \/ handleCreateVideo
  \/ \E c \in 1..MaxCreations : creationStepDone(c)
  \/ handlePreview
  \/ handleDownload

SpecVideo == Init /\ [][NextVideo]_vars

\* The VideoCreator with handleCreateVideo called whenever no creation is
\* running, whether or not a script file has been chosen.
NextVideoCall ==
  \/ \E f \in ScriptFiles : handleScriptUpload(f)
  \/ ~creator.isCreating /\ handleCreateVideoCall
  \/ \E c \in 1..MaxCreations : creationStepDone(c)
  \/ handlePreview
  \/ handleDownload

SpecVideoCall == Init /\ [][NextVideoCall]_vars

\* ========================================================= ScriptGenerator
\* what the user can type into the keyword input
NewKeywords == {"", " ", "ai", " ai ", "tech"}

\* a membership test that never finds the keyword
arrayIncludesNever(arr, x) == FALSE

\* Array.prototype.includes
arrayIncludes(arr, x) == \E k \in 1..Len(arr) : arr[k] = x

\* keywords.filter(k => k !== keyword)
filterOut(arr, x) == SelectSeq(arr, LAMBDA k : k # x)

\* onChange of the keyword input
setNewKeyword(t) ==
  /\ script' = [script EXCEPT !.newKeyword = t]
  /\ logged' = <<>>
  /\ toasted' = <<>>
  /\ UNCHANGED <<keywordAdds, offScript>>

\* Add button, and Enter in the keyword input; "" is falsy
handleAddKeyword ==
  /\ Len(keywordAdds) < MaxKeywordAdds
  /\ LET kw == trim(script.newKeyword)
         add == kw # "" /\ ~arrayIncludes(script.keywords, kw)
     IN  /\ script' = IF add
                        THEN [keywords |-> Append(script.keywords, kw),
                              newKeyword |-> ""]
                        ELSE script
         /\ keywordAdds' = Append(keywordAdds,
                             [typed |-> script.newKeyword, added |-> add])
  /\ logged' = <<>>
  /\ toasted' = <<>>
  /\ UNCHANGED offScript

\* click on the badge of a keyword shown
handleRemoveKeyword(keyword) ==
  /\ arrayIncludes(script.keywords, keyword)
  /\ script' = [script EXCEPT !.keywords = filterOut(script.keywords, keyword)]
  /\ logged' = <<>>
  /\ toasted' = <<>>
  /\ UNCHANGED <<keywordAdds, offScript>>

NextScript ==
  \/ \E t \in NewKeywords : setNewKeyword(t)
  \/ handleAddKeyword
  \/ \E k \in NewKeywords : handleRemoveKeyword(k)

SpecScript == Init /\ [][NextScript]_vars

\* =========================================================== ConfigManager
\* what the Retry Attempts input (type="number") can hold: nothing, a whole
\* number, a negative number, a fraction
RetryInputs ==
  {"", "-1", "2.5"} \cup {ToString(n) : n \in 0..MaxRetryInput}

\* parseInt on the inputs above
parseInt(str) ==
  IF str = "" THEN NaN
  ELSE IF str = "-1" THEN num(-1)
  ELSE IF str = "2.5" THEN num(2)
  ELSE num(CHOOSE n \in 0..MaxRetryInput : ToString(n) = str)

\* `${value}` of a number
numberText(x) ==
  IF x = NaN THEN "NaN"
  ELSE IF x[1] < 0 THEN "-" \o ToString(0 - x[1])
  ELSE ToString(x[1])

\* handleConfigChange(key, value); text is `${value}`
handleConfigChange(key, value, text) ==
  /\ config' = [config EXCEPT ![key] = value]
  /\ logged' = addLog(<<>>, "Configuration updated", key \o " = " \o text)
  /\ toasted' = <<>>
  /\ UNCHANGED <<selectors, offConfig>>

\* onChange of the Retry Attempts input
setRetryAttempts(str) ==
  /\ handleConfigChange("retryAttempts", parseInt(str),
                        numberText(parseInt(str)))
  /\ UNCHANGED coreVars

\* the items of the Primary Browser select
Browsers == {"edge", "chrome"}

\* what the API Key input can hold
ApiKeys == {"", "sk-test"}

\* onValueChange of the Primary Browser select
setPrimaryBrowser(b) ==
  /\ handleConfigChange("primaryBrowser", b, b)
  /\ UNCHANGED coreVars

\* onChange of the API Key input
setApiKey(k) ==
  /\ handleConfigChange("apiKey", k, k)
  /\ UNCHANGED coreVars

\* Save Configuration button
handleSaveConfig ==
  /\ logged' = addLog(<<>>, "Configuration saved to file", "")
  /\ toasted' = <<Msg("success: Configuration saved successfully!", "")>>
  /\ UNCHANGED <<configVars, coreVars, offConfig>>

\* ============================================================= RetryPolicy
Outcomes == {"Success", "RetryableFailure", "FatalFailure"}

\* a policy that retries whatever failed
mayRetryAny(outcome) == outcome # "Success"

\* only a failure classified retryable is retried
mayRetry(outcome) == outcome = "RetryableFailure"

\* the state of Run after an attempt with this outcome
afterAttempt(outcome, attempts, maxAttempts) ==
  IF outcome = "Success" THEN "succeeded"
  ELSE IF ~mayRetry(outcome) THEN "aborted"
  ELSE IF attempts < maxAttempts THEN "running"
  ELSE "exhausted"

\* RetryPolicy.Run is called with the configured number of attempts; it is
\* described for a count of attempts, so not for NaN or a negative number
retryRun ==
  /\ retry.status # "running"
  /\ config.retryAttempts # NaN
  /\ config.retryAttempts[1] >= 0
  /\ retry' = [status |-> IF config.retryAttempts[1] = 0 THEN "exhausted"
                                                         ELSE "running",
               maxAttempts |-> config.retryAttempts[1],
               attempts |-> 0,
               outcomes |-> <<>>]
  /\ logged' = <<>>
  /\ toasted' = <<>>
  /\ UNCHANGED <<locate, configVars, offConfig>>

\* one attempt of the operation, classified once
retryAttempt(outcome) ==
  /\ retry.status = "running"
  /\ retry' = [retry EXCEPT
                 !.attempts = @ + 1,
                 !.outcomes = Append(@, outcome),
                 !.status = afterAttempt(outcome, retry.attempts + 1,
                                         retry.maxAttempts)]
  /\ logged' = <<>>
  /\ toasted' = <<>>
  /\ UNCHANGED <<locate, configVars, offConfig>>

NextRetry ==
  \/ \E str \in RetryInputs : setRetryAttempts(str)
  \/ retryRun
  \/ \E o \in Outcomes : retryAttempt(o)

SpecRetry == Init /\ [][NextRetry]_vars

\* ======================================================== selector editor
\* what a selector textarea can hold: texts of at most MaxText tokens, a
\* token being a line break, a blank or a selector word
Tokens == {"\n", " ", "#login", ".login"}
Texts == UNION {[1..n -> Tokens] : n \in 0..MaxText}

\* text.split('\n'): the lines between the line breaks, one more than there
\* are line breaks
RECURSIVE split(_)
split(text) ==
  IF \A k \in 1..Len(text) : text[k] # "\n" THEN <<text>>
  ELSE LET k == CHOOSE j \in 1..Len(text) :
                  text[j] = "\n" /\ \A m \in 1..(j - 1) : text[m] # "\n"
       IN  <<SubSeq(text, 1, k - 1)>> \o split(SubSeq(text, k + 1, Len(text)))

\* s.trim() is truthy: the line has something other than blanks
hasText(line) == \E k \in 1..Len(line) : line[k] # " "

\* onChange of the Login Button textarea
setLoginButton(text) ==
  /\ selectors' = [selectors EXCEPT
                     !.capcut.loginButton = SelectSeq(split(text), hasText)]
  /\ logged' = <<>>
  /\ toasted' = <<>>
  /\ UNCHANGED <<config, coreVars, offConfig>>

\* Save Selectors button
handleSaveSelectors ==
  /\ logged' = addLog(<<>>, "Selectors saved to file", "")
  /\ toasted' = <<Msg("success: Selectors saved successfully!", "")>>
  /\ UNCHANGED <<configVars, coreVars, offConfig>>

\* ========================================================== ElementLocator
LogicalActions == {"loginButton", "generateButton"}

\* Resolve is called for a logical action with its configured candidates; an
\* empty list is a configuration error and no candidate is checked
locateResolve(action) ==
  /\ locate.status # "checking"
  /\ LET candidates == selectors.capcut[action]
     IN  locate' = [status |-> IF Len(candidates) = 0 THEN "config_error"
                                                      ELSE "checking",
                    candidates |-> candidates,
                    checks |-> <<>>,
                    found |-> 0]
  /\ logged' = <<>>
  /\ toasted' = <<>>
  /\ UNCHANGED <<retry, configVars, offConfig>>

\* the next candidate is checked against the page
locateCheck(ok) ==
  /\ locate.status = "checking"
  /\ LET n == Len(locate.checks) + 1
     IN  locate' = [locate EXCEPT
                      !.checks = Append(@, [index |-> n, ok |-> ok]),
                      !.found = IF ok THEN n ELSE 0,
                      !.status = IF ok THEN "found"
                                 ELSE IF n = Len(locate.candidates)
                                   THEN "not_found"
                                 ELSE "checking"]
  /\ logged' = <<>>
  /\ toasted' = <<>>
  /\ UNCHANGED <<retry, configVars, offConfig>>

NextLocator ==
  \/ \E text \in Texts : setLoginButton(text)
  \/ handleSaveSelectors
  \/ \E a \in LogicalActions : locateResolve(a)
  \/ \E ok \in BOOLEAN : locateCheck(ok)

SpecLocator == Init /\ [][NextLocator]_vars

\* ------------------------------------------------- ConfigManager as a whole
NextConfig ==
  \/ \E b \in Browsers : setPrimaryBrowser(b)
  \/ \E k \in ApiKeys : setApiKey(k)
  \/ \E str \in RetryInputs : setRetryAttempts(str)
  \/ handleSaveConfig
  \/ \E text \in Texts : setLoginButton(text)
  \/ handleSaveSelectors

SpecConfig == Init /\ [][NextConfig]_vars

\* ================================================================ claims
\* the steps a history names in its events of one kind, in order
StepsOf(trace, kind) ==
  LET sel == SelectSeq(trace, LAMBDA e : e.ev = kind)
  IN  [k \in 1..Len(sel) |-> sel[k].step]


Hundred == Frac(100, 1)

\* ------------------------------------------------------------------- C1
\* C1: at most one handleStart stage loop that has been started and has not
\* finished exists at any time.
C1_AtMostOneRun == Cardinality(InFlight) <= 1

\* ------------------------------------------------------------------- C2
\* C2: once Stop has been requested during a run, that run starts no further
\* stage: its only possible step is to finish (its last stage was the one in
\* flight).
C2_StopHonoured ==
  [][\A r \in InFlight :
       runs[r].stopped =>
         \/ runs'[r].pc = "done"
         \/ runs'[r].trace = runs[r].trace]_vars

\* ------------------------------------------------------------------- C3
\* C3: a run executes exactly the stages the mode table lists for the mode it
\* was started in, each once and in the table's order: while it is in flight
\* it has started the first i + 1 and finished the first i of them, and when
\* it returns it has started and finished all of them.
C3_ExactStages ==
  /\ \A r \in InFlight :
       LET run == runs[r]
           table == getWorkflowSteps(run.workflow)
       IN  /\ run.i < Len(table)
           /\ StepsOf(run.trace, "start") = SubSeq(table, 1, run.i + 1)
           /\ StepsOf(run.trace, "done") = SubSeq(table, 1, run.i)
  /\ \A k \in 1..Len(completed) :
       LET run == completed[k]
           table == getWorkflowSteps(run.workflow)
       IN  /\ StepsOf(run.trace, "start") = table
           /\ StepsOf(run.trace, "done") = table
           /\ Len(run.trace) = 2 * Len(table)

\* a run of two stages has returned after the mode was changed under it
C3_Witness ==
  /\ completed # <<>>
  /\ completed[1].workflow = "video_and_upload"
  /\ activeWorkflow # completed[1].workflow

\* ------------------------------------------------------------------- C4
RECURSIVE IsSubseq(_, _)
\* s is obtained from t by dropping elements
IsSubseq(s, t) ==
  IF s = <<>> THEN TRUE
  ELSE IF t = <<>> THEN FALSE
  ELSE IF Head(s) = Head(t) THEN IsSubseq(Tail(s), Tail(t))
  ELSE IsSubseq(s, Tail(t))

StagesOf(steps) == [k \in 1..Len(steps) |-> stageKind(steps[k])]

\* every selectable mode maps to a non-empty stage list that is a
\* subsequence of Script, Video, Upload
TableOK ==
  \A m \in ModeValues :
    /\ getWorkflowSteps(m) # <<>>
    /\ IsSubseq(StagesOf(getWorkflowSteps(m)), <<"Script", "Video", "Upload">>)

\* the stage list a run holds is non-empty and such a subsequence
RunListOK(run) ==
  /\ run.workflow \in ModeValues
  /\ run.steps # <<>>
  /\ IsSubseq(StagesOf(run.steps), <<"Script", "Video", "Upload">>)

\* C4: there are exactly the six modes, the selected mode is always one of
\* them, each maps to a non-empty stage list that is a subsequence of
\* Script, Video, Upload, and no run is started with an empty stage list.
C4_ModeTable ==
  /\ Len(workflowModes) = 6
  /\ ModeValues = {"full_auto", "script_only", "video_only", "upload_only",
                   "script_and_video", "video_and_upload"}
  /\ activeWorkflow \in ModeValues
  /\ TableOK
  /\ \A r \in InFlight : RunListOK(runs[r])
  /\ \A k \in 1..Len(completed) : RunListOK(completed[k])

\* a run has been started in a mode other than the initial one
C4_Witness ==
  \E r \in InFlight : runs[r].workflow = "video_only" /\ Len(runs[r].steps) = 1

\* ------------------------------------------------------------------- C5
\* C5: a run that has been stopped never completes: no run returns, setting
\* the current step to Completed and raising the completion toast, after
\* Stop was clicked during it.
C5_StoppedIsFinal ==
  \A k \in 1..Len(completed) : ~completed[k].stopped

\* ------------------------------------------------------------------- C6
\* C6: while a run is paused none of its stages is executed (the code has no
\* resume, so a paused run stays where it was).
C6_PausedRunsRest ==
  [][\A r \in InFlight :
       runs[r].paused =>
         /\ runs'[r].pc = "await"
         /\ runs'[r].trace = runs[r].trace]_vars

\* ------------------------------------------------------------------- C7
\* C7: the upload history never holds two records made from the same video
\* (same file and same title).
C7_NoDuplicateUpload ==
  \A a, b \in 1..Len(uploadedVideos) :
    (a # b /\ uploadedVideos[a].file # Null) =>
      ~(/\ uploadedVideos[a].file = uploadedVideos[b].file
        /\ uploadedVideos[a].title = uploadedVideos[b].title)

\* ------------------------------------------------------------------- C8
\* position of a step in a stage list (0 if absent)
IndexOf(steps, step) ==
  IF \E k \in 1..Len(steps) : steps[k] = step
    THEN CHOOSE k \in 1..Len(steps) : steps[k] = step
    ELSE 0

\* the history of a run is in stage order
RunSequential(run) ==
  \A p \in 1..Len(run.trace) :
    LET e == run.trace[p]
        n == IndexOf(run.steps, e.step)
    IN  /\ n > 0
        /\ e.ev = "done" =>
             p > 1 /\ run.trace[p - 1] = Ev("start", e.step)
        /\ n > 1 =>
             \E q \in 1..(p - 1) :
               run.trace[q] = Ev("done", run.steps[n - 1])

\* C8: within one run a stage is recorded done only right after its own
\* start, and stage n+1 is neither started nor done before stage n is done.
C8_Sequential ==
  /\ \A r \in InFlight : RunSequential(runs[r])
  /\ \A k \in 1..Len(completed) : RunSequential(completed[k])

\* a run of three stages has its third stage in flight
C8_Witness ==
  \E r \in InFlight : runs[r].i = 2 /\ Len(runs[r].trace) = 5

\* ------------------------------------------------------------------- C9
\* C9: the progress value lies in 0..100 and equals 100 * completed / total
\* for the current (latest started, not stopped) run, in flight or just
\* returned; it is 0 before any run.
C9_ProgressExact ==
  /\ progress.num >= 0 /\ progress.num <= 100 * progress.den
  /\ runs = <<>> => progress = Zero
  /\ (Len(runs) \in InFlight /\ ~runs[Len(runs)].stopped) =>
       progress = Frac(100 * runs[Len(runs)].i, Len(runs[Len(runs)].steps))
  /\ \A k \in 1..Len(completed) :
       ~completed[k].stopped => progress = Hundred

\* ------------------------------------------------------------------ C10
\* C10: a full_auto run eventually returns, and one that was neither stopped
\* nor paused returns with the three stages done in the order Script, Video,
\* Upload, the progress at 100, the current step Completed, the completion
\* toast raised and isRunning false.
C10_FullAutoCompletes ==
  /\ \A r \in 1..MaxRuns :
       (r \in InFlight /\ runs[r].workflow = "full_auto")
         ~> (r <= Len(runs) /\ runs[r].pc = "done")
  /\ [](\A k \in 1..Len(completed) :
          LET run == completed[k]
          IN  (run.workflow = "full_auto" /\ ~run.stopped /\ ~run.paused) =>
                /\ StagesOf(StepsOf(run.trace, "done")) =
                     <<"Script", "Video", "Upload">>
                /\ progress = Hundred
                /\ currentStep = "Completed"
                /\ toasted = <<completedToast("full_auto")>>
                /\ ~isRunning)

\* a full_auto run has returned without Stop or Pause
C10_Witness ==
  /\ completed # <<>>
  /\ completed[1].workflow = "full_auto"
  /\ ~completed[1].stopped
  /\ ~completed[1].paused

\* ------------------------------------------------------------------ C11
\* C11: a run in video_only mode generates a script and then creates a
\* video, the two stages of script_and_video in the same order.
C11_VideoOnlyStages ==
  \A k \in 1..Len(completed) :
    completed[k].workflow = "video_only" =>
      StepsOf(completed[k].trace, "done") =
        <<"Generate Script", "Create Video">>

\* ------------------------------------------------------------------ C13
\* C13: the upload history changes only in the step in which an upload
\* finishes the last of its steps, that step adds exactly one record at the
\* front, and every upload that finishes adds one; a rejected upload and an
\* upload still running add none.
C13_AppendAfterSuccess ==
  [][/\ uploadedVideos' # uploadedVideos =>
          /\ Tail(uploadedVideos') = uploadedVideos
          /\ \E u \in 1..Len(uploads) :
               /\ uploads[u].pc = "await"
               /\ uploads[u].i = Len(uploadSteps) - 1
               /\ uploads'[u].pc = "done"
     /\ \A u \in 1..Len(uploads) :
          (uploads[u].pc = "await" /\ uploads'[u].pc = "done") =>
            Len(uploadedVideos') = Len(uploadedVideos) + 1]_vars

\* an upload has just finished and its record is in the history
C13_Witness ==
  /\ \E u \in 1..Len(uploads) : uploads[u].pc = "done"
  /\ Len(uploadedVideos) = Len(initialVideos) + 1
  /\ logged = addLog(<<>>, "YouTube upload completed successfully", "")

\* ------------------------------------------------------------------ C14
\* C14: a call of handleUpload with no file selected, or with a title that is
\* empty or only white space, changes nothing of the UploadManager state and
\* logs nothing.
C14_RejectLeavesState ==
  [][(/\ ~isUploading
      /\ handleUploadCall
      /\ (videoFile = Null \/ uploadDetails.title \in {"", " "})) =>
       (UNCHANGED uploadVars /\ logged' = <<>>)]_vars

\* handleUpload has just been called with no file selected
C14_Witness ==
  /\ toasted = <<Msg("error: Please select a video file first", "")>>
  /\ videoFile = Null
  /\ ~isUploading

\* ------------------------------------------------------------------ C15
\* C15: handleCreateVideo called with no script file leaves isCreating,
\* progress, currentStep and createdVideo as they were and logs nothing, and
\* createdVideo is set only in a state that has a script file.
C15_NoVideoWithoutScript ==
  [][/\ (/\ ~creator.isCreating
         /\ handleCreateVideoCall
         /\ creator.scriptFile = Null) =>
          (creator' = creator /\ logged' = <<>>)
     /\ creator'.createdVideo # creator.createdVideo =>
          creator.scriptFile # Null
     /\ creator'.createdVideo # noVideo => creator'.scriptFile # Null]_vars

\* handleCreateVideo has just been called with no script file chosen
C15_Witness ==
  /\ toasted = <<Msg("error: Please upload a script file first", "")>>
  /\ creator.scriptFile = Null
  /\ creator.createdVideo = noVideo

\* ------------------------------------------------------------------ C16
\* the position in the history of the call that last added keyword k
lastAdd(k) ==
  CHOOSE n \in 1..Len(keywordAdds) :
    /\ keywordAdds[n].added
    /\ keywordAdds[n].typed \in {k, " " \o k \o " "}
    /\ \A m \in (n + 1)..Len(keywordAdds) :
         ~(keywordAdds[m].added /\ keywordAdds[m].typed \in {k, " " \o k \o " "})

\* no duplicate, no blank entry, and the order of the most recent additions
KeywordsOrderedSet(keywords) ==
  /\ \A i, j \in 1..Len(keywords) : i # j => keywords[i] # keywords[j]
  /\ \A i \in 1..Len(keywords) : keywords[i] \notin {"", " "}
  /\ \A i, j \in 1..Len(keywords) :
       i < j => lastAdd(keywords[i]) < lastAdd(keywords[j])

\* C16: after any sequence of add-keyword and remove-keyword operations the
\* keyword list has no duplicate and no empty or white-space entry, and its
\* elements are in the order in which they were most recently added; adding a
\* keyword that is already in the list leaves the list unchanged.
C16_KeywordsOrderedSet ==
  [][/\ KeywordsOrderedSet(script.keywords)'
     /\ (/\ handleAddKeyword
         /\ \E i \in 1..Len(script.keywords) :
              script.newKeyword \in
                {script.keywords[i], " " \o script.keywords[i] \o " "}) =>
          script'.keywords = script.keywords]_vars

\* two keywords are listed, one of them removed and added again after the
\* other, and the last call tried to add a keyword already in the list
C16_Witness ==
  /\ script.keywords = <<"tech", "ai">>
  /\ Len(keywordAdds) = 4
  /\ keywordAdds[1].added /\ keywordAdds[1].typed = "ai"
  /\ keywordAdds[3].added /\ keywordAdds[3].typed = " ai "
  /\ ~keywordAdds[4].added /\ keywordAdds[4].typed = "tech"

\* ------------------------------------------------------------------ C17
\* the progress event of a stage start or a stage success
progressEvent(e) ==
  IF e.ev = "start" THEN Msg("Executing step", e.step)
  ELSE IF includes(e.step, "Script") THEN Msg("Script generation completed", "")
  ELSE IF includes(e.step, "Video") THEN Msg("Video creation completed", "")
  ELSE Msg("Video upload completed", "")

\* the progress events of the part of a history after its first n events
progressEvents(trace, n) ==
  [k \in 1..(Len(trace) - n) |-> progressEvent(trace[n + k])]

\* starts and successes alternate, each success being that of the stage
\* started just before it
WellOrdered(trace) ==
  \A k \in 1..Len(trace) :
    IF k % 2 = 1 THEN trace[k].ev = "start"
    ELSE trace[k].ev = "done" /\ trace[k].step = trace[k - 1].step

\* the history of invocation r after the step
traceAfter(r) ==
  IF runs'[r].pc = "done" THEN completed'[1].trace ELSE runs'[r].trace

\* C17: the events a run hands to the log are, in order, 'Starting <mode>
\* workflow', then for each stage it executes 'Executing step: X' followed by
\* exactly one success event of X before the next stage starts; a run that
\* returns has a success event for every stage it started.
C17_EventsWellOrdered ==
  [][IF Len(runs') > Len(runs)
       THEN /\ logged' = <<Msg("Starting workflow", activeWorkflow)>> \o
                           progressEvents(traceAfter(Len(runs')), 0)
            /\ WellOrdered(traceAfter(Len(runs')))
       ELSE \A r \in 1..Len(runs) :
              (/\ runs[r].pc = "await"
               /\ (runs'[r].pc = "done" \/ runs'[r].i # runs[r].i)) =>
                /\ logged' = progressEvents(traceAfter(r), Len(runs[r].trace))
                /\ WellOrdered(traceAfter(r))
                /\ SubSeq(traceAfter(r), 1, Len(runs[r].trace)) = runs[r].trace
                /\ runs'[r].pc = "done" =>
                     Len(traceAfter(r)) = 2 * Len(runs[r].steps)]_vars

\* a full_auto run has just logged the success of its second stage and the
\* start of its third
C17_Witness ==
  /\ logged = <<Msg("Video creation completed", ""),
                Msg("Executing step", "Upload to YouTube")>>
  /\ \E r \in InFlight :
       /\ runs[r].workflow = "full_auto"
       /\ Len(runs[r].trace) = 5

\* ------------------------------------------------------------------ C18
\* C18: no run executes a stage while a field its stages require is absent:
\* a run with a Script stage is in flight only if an API key is configured.
C18_StartFailsFast ==
  \A r \in InFlight :
    (\E k \in 1..Len(runs[r].steps) : stageKind(runs[r].steps[k]) = "Script")
      => config.apiKey # ""

\* ------------------------------------------------------------------ C19
\* C19: a Run with maxAttempts = k makes at most k attempts; every attempt
\* but the last failed retryably, so a retry follows only a retryable failure
\* and a fatal failure is the last attempt of its Run; a Run still going has
\* attempts left.
C19_BoundedRetry ==
  /\ retry.attempts <= retry.maxAttempts
  /\ retry.attempts = Len(retry.outcomes)
  /\ \A n \in 1..(Len(retry.outcomes) - 1) :
       retry.outcomes[n] = "RetryableFailure"
  /\ retry.status = "running" =>
       /\ retry.attempts < retry.maxAttempts
       /\ \A n \in 1..Len(retry.outcomes) :
            retry.outcomes[n] = "RetryableFailure"
  /\ retry.status = "aborted" =>
       retry.outcomes[Len(retry.outcomes)] = "FatalFailure"

\* with two attempts configured by typing 2.5, a Run was aborted by a fatal
\* failure on its first attempt
C19_Witness ==
  /\ config.retryAttempts = num(2)
  /\ retry.maxAttempts = 2
  /\ retry.status = "aborted"
  /\ retry.outcomes = <<"FatalFailure">>

\* ------------------------------------------------------------------ C20
\* C20: Resolve checks the candidates of a list of length n from left to
\* right, makes at most n checks and stops at the first success; an empty list
\* is a configuration error with no check made; and no logical action has an
\* empty candidate list that was accepted.
C20_LocatorAndNoEmptyList ==
  /\ Len(locate.checks) <= Len(locate.candidates)
  /\ \A n \in 1..Len(locate.checks) :
       /\ locate.checks[n].index = n
       /\ n < Len(locate.checks) => ~locate.checks[n].ok
  /\ locate.status = "config_error" =>
       Len(locate.candidates) = 0 /\ locate.checks = <<>>
  /\ \A a \in LogicalActions : Len(selectors.capcut[a]) > 0

\* ------------------------------------------------------------------ C21
\* C21: isRunning is true exactly when some handleStart stage loop has been
\* started and has not finished.
C21_RunningTruthful == isRunning <=> InFlight # {}

\* ------------------------------------------------------------------ C22
\* C22: the stages of a run are those of the mode selected when Start was
\* clicked: a change of the selected mode changes no run, a run in flight
\* keeps its stage list from step to step, a run that returns has done
\* exactly the stages it was started with, and a Start takes the stages of the
\* mode selected at that moment.
C22_StagesFixedAtStart ==
  [][/\ activeWorkflow' # activeWorkflow => runs' = runs
     /\ Len(runs') > Len(runs) =>
          \/ runs'[Len(runs')].pc = "done"
          \/ /\ runs'[Len(runs')].workflow = activeWorkflow
             /\ runs'[Len(runs')].steps = getWorkflowSteps(activeWorkflow)
     /\ \A r \in 1..Len(runs) :
          runs[r].pc = "await" =>
            IF runs'[r].pc = "await"
              THEN /\ runs'[r].steps = runs[r].steps
                   /\ runs'[r].workflow = runs[r].workflow
              ELSE StepsOf(completed'[1].trace, "done") =
                     getWorkflowSteps(runs[r].workflow)]_vars

\* a full_auto run returns after all three stages while another mode is
\* selected
C22_Witness ==
  /\ completed # <<>>
  /\ completed[1].workflow = "full_auto"
  /\ activeWorkflow = "script_only"
  /\ Len(completed[1].trace) = 6

\* ------------------------------------------------------------------ C23
\* the stage whose timer fires in this step, "" if no run steps
stageDone ==
  IF \E r \in 1..Len(runs) :
       runs[r].pc = "await" /\ (runs'[r].pc = "done" \/ runs'[r].i # runs[r].i)
    THEN LET r == CHOOSE q \in 1..Len(runs) :
                    /\ runs[q].pc = "await"
                    /\ (runs'[q].pc = "done" \/ runs'[q].i # runs[q].i)
         IN  stepAt(runs[r].steps, runs[r].i)
    ELSE ""

C24_RateAtMostHundred == successRate <= 100

\* ------------------------------------------------------------------ C25
\* handleUpload invocations whose loop has not finished
Uploading == {u \in 1..Len(uploads) : uploads[u].pc = "await"}

\* C25: at most one upload is in flight, isUploading is true exactly while
\* one is, and an upload starts only when every earlier one has returned and
\* so has added its record.
C25_OneUploadAtATime ==
  /\ Cardinality(Uploading) <= 1
  /\ isUploading <=> Uploading # {}
  /\ \A u \in Uploading : u = Len(uploads)
  /\ Len(uploadedVideos) = Len(initialVideos) + Len(uploads) - Cardinality(Uploading)

\* a second upload is in flight after the first has added its record
C25_Witness ==
  /\ Len(uploads) = 2
  /\ uploads[1].pc = "done"
  /\ uploads[2].pc = "await"
  /\ Len(uploadedVideos) = Len(initialVideos) + 1

\* ------------------------------------------------------------------ C26
\* C26: every record of the history is scheduled exactly if it has a
\* scheduledFor time; an upload takes the Schedule Video switch as it is when
\* the upload starts, and the record it adds is scheduled, with a scheduledFor
\* time, exactly if the switch was on then, whatever the switch is afterwards.
C26_ScheduleConsistent ==
  [][/\ \A k \in 1..Len(uploadedVideos') :
          /\ uploadedVideos'[k].status \in {"scheduled", "uploaded"}
          /\ uploadedVideos'[k].status = "scheduled" <=>
               uploadedVideos'[k].scheduledFor # <<>>
     /\ Len(uploads') > Len(uploads) =>
          uploads'[Len(uploads')].scheduleVideo = scheduleSettings.scheduleVideo
     /\ \A u \in 1..Len(uploads) :
          (uploads[u].pc = "await" /\ uploads'[u].pc = "await") =>
            uploads'[u].scheduleVideo = uploads[u].scheduleVideo
     /\ \A u \in 1..Len(uploads) :
          (uploads[u].pc = "await" /\ uploads'[u].pc = "done") =>
            uploadedVideos'[1].status =
              IF uploads[u].scheduleVideo THEN "scheduled" ELSE "uploaded"]_vars

\* an upload started with the switch off has added an unscheduled record
\* while the switch is on again
C26_Witness ==
  /\ Len(uploadedVideos) = Len(initialVideos) + 1
  /\ uploadedVideos[1].status = "uploaded"
  /\ uploadedVideos[1].scheduledFor = <<>>
  /\ scheduleSettings.scheduleVideo

\* ------------------------------------------------------------------ C27
\* C27: no step removes, changes or reorders a record of the upload history:
\* the history either stays as it is or gets one record at its front; the
\* step in which an upload returns adds its record, clears the video file,
\* the title, the description, the tags and the thumbnail, sets isUploading
\* false and the progress 0, and leaves the schedule settings as they are.
C27_AppendOnlyAndReset ==
  [][/\ \/ uploadedVideos' = uploadedVideos
        \/ /\ Len(uploadedVideos') = Len(uploadedVideos) + 1
           /\ \A k \in 1..Len(uploadedVideos) :
                uploadedVideos'[k + 1] = uploadedVideos[k]
     /\ \A u \in 1..Len(uploads) :
          (uploads[u].pc = "await" /\ uploads'[u].pc = "done") =>
            /\ Len(uploadedVideos') = Len(uploadedVideos) + 1
            /\ uploadedVideos'[1].title = uploads[u].title
            /\ videoFile' = Null
            /\ uploadDetails'.title = ""
            /\ uploadDetails'.description = ""
            /\ uploadDetails'.tags = ""
            /\ uploadDetails'.thumbnail = Null
            /\ ~isUploading'
            /\ uploadProgress' = Zero
            /\ scheduleSettings' = scheduleSettings]_vars

\* an upload has returned: its record is in front of the two earlier ones,
\* the form is empty and the Schedule Video switch is still off
C27_Witness ==
  /\ toasted = <<Msg("success: Video uploaded successfully!", "")>>
  /\ Len(uploadedVideos) = Len(initialVideos) + 1
  /\ SubSeq(uploadedVideos, 2, Len(uploadedVideos)) = initialVideos
  /\ uploadDetails = emptyDetails
  /\ videoFile = Null
  /\ ~scheduleSettings.scheduleVideo

\* ------------------------------------------------------------------ C28
\* C28: whenever createdVideo is set, no creation is in progress, the
\* progress is 100 and the current step is Completed.
C28_CreatedMeansComplete ==
  creator.createdVideo # noVideo =>
    /\ ~creator.isCreating
    /\ creator.progress = Hundred
    /\ creator.currentStep = "Completed"

\* ------------------------------------------------------------------ C29
\* C29: the primary browser and the fallback browser are chrome and edge, one
\* each.
C29_FallbackPair ==
  /\ config.primaryBrowser \in Browsers
  /\ config.fallbackBrowser \in Browsers
  /\ config.primaryBrowser # config.fallbackBrowser

====
